---- MODULE Spec2Model ----
(***************************************************************************)
(* A model of axio's wait/wake registry (src/src/poll.rs: Inner, PollSet)  *)
(* and of its buffered writer (src/src/buffered/writer.rs: BufWriter).     *)
(*                                                                         *)
(* Spec      the PollSet driven by one caller at a time (register, wake,   *)
(*           drop), each call taken as a whole.                            *)
(* SpecConc  the PollSet shared by threads whose register and wake calls   *)
(*           interleave at the steps of the spin lock.                     *)
(* SpecBuf   the BufWriter used by its one owner.                          *)
(* SpecPut   the draining loops of Buf and BufMut (src/src/buf.rs:         *)
(*           read_with, fill_with, put), one loop iteration per step.      *)
(***************************************************************************)
EXTENDS Integers, Sequences, FiniteSets, TLC

(***************************************************************************)
(* Bounds.  POLL_SET_CAPACITY is 64 in the source (poll.rs:42); the model  *)
(* runs the same code over a smaller ring so that the cursor's whole       *)
(* range 0 .. 2N-1, including its wrap, is explored.                       *)
(***************************************************************************)
POLL_SET_CAPACITY == 3

\* Number of distinct tasks whose wakers are registered.
NumTasks == 4

\* Number of register calls in one run.
MaxRegs == 7

\* Number of threads that share the PollSet in SpecConc.
NumThreads == 2

\* DEFAULT_BUF_SIZE is 1024 in the source (buffered/mod.rs:6); the model runs
\* the same code over a smaller buffer.
DEFAULT_BUF_SIZE == 2

\* Total number of bytes handed to write and skip_some in one run.
MaxBytes == 4

\* Number of failures of the sink in one run.
MaxFails == 1

\* Longest byte sequence behind a Buf or a BufMut.
MaxBufLen == 3

Tasks == 1 .. NumTasks

Slots == 0 .. (POLL_SET_CAPACITY - 1)

Min(a, b) == IF a < b THEN a ELSE b

\* A waker: the task it resumes, and the register call that cloned it
\* (id, a history label: the program never reads it).
Waker(t, k) == [task |-> t, id |-> k]

\* The content of a MaybeUninit slot that was never written.
Uninit == [task |-> 0, id |-> 0]

\* will_wake that never recognises a task.
MutWillWake(a, b) == FALSE

\* Waker::will_wake: both handles resume the same task.
WillWake(a, b) == a.task = b.task

\* Inner::new
InnerNew == [entries |-> [s \in Slots |-> Uninit], cursor |-> 0]

\* len that reports the cursor itself.
MutInnerLen(in) == in.cursor

\* Inner::len
InnerLen(in) == Min(in.cursor, POLL_SET_CAPACITY)

\* Inner::is_empty
InnerIsEmpty(in) == in.cursor = 0

\* The cursor after one registration.
NextCursor(c) == (c + 1) % (POLL_SET_CAPACITY * 2)

\* Inner::register, as the structure it leaves and what became of the value
\* that was in the slot: woke (read out and woken), dropped (read out and
\* dropped without a wake), lost (overwritten in place, never read).
InnerRegister(in, w) ==
    LET slot == in.cursor % POLL_SET_CAPACITY
        old == in.entries[slot]
        evict == in.cursor >= POLL_SET_CAPACITY
    IN  [inner |-> [entries |-> [in.entries EXCEPT ![slot] = w],
                    cursor |-> NextCursor(in.cursor)],
         woke |-> IF evict /\ ~WillWake(old, w) THEN <<old>> ELSE <<>>,
         dropped |-> IF evict /\ WillWake(old, w) THEN <<old>> ELSE <<>>,
         lost |-> IF ~evict /\ old # Uninit THEN <<old>> ELSE <<>>]

\* Drop for Inner that takes the slot index for the length.
MutInnerDropLen(in) == in.cursor % POLL_SET_CAPACITY

\* How many slots Drop for Inner reads.
InnerDropLen(in) == Min(in.cursor, POLL_SET_CAPACITY)

\* Drop for Inner: the wakers it wakes, in order.
InnerDrop(in) == [i \in 1 .. InnerDropLen(in) |-> in.entries[i - 1]]

\* The written slots Drop for Inner does not read: their wakers are never
\* woken and never dropped.
InnerDropLeft(in) ==
    {in.entries[s] : s \in {x \in Slots : x >= InnerDropLen(in)}} \ {Uninit}

\* wake that reads the structure and leaves it behind the lock as it was.
MutPollSetWakeKeeps(in) ==
    IF InnerIsEmpty(in)
    THEN [inner |-> in, ret |-> 0, detached |-> <<>>]
    ELSE [inner |-> in, ret |-> InnerLen(in), detached |-> <<in>>]

\* PollSet::wake: the structure left behind the lock, the returned count and
\* the structure detached from it (dropped when wake returns), or none.
PollSetWake(in) ==
    IF InnerIsEmpty(in)
    THEN [inner |-> in, ret |-> 0, detached |-> <<>>]
    ELSE [inner |-> InnerNew, ret |-> InnerLen(in), detached |-> <<in>>]

(***************************************************************************)
(* BufWriter.  A writer is its fields pos and buf (the storage, all         *)
(* DEFAULT_BUF_SIZE cells of it); the sink is what the calls hand to it.    *)
(* Every method is the result record                                       *)
(*   pos, buf  the fields after the call                                   *)
(*   ok, err   Ok or Err, and the sink call that failed                    *)
(*   n         the returned count                                          *)
(*   calls     the byte strings passed to the sink's write_all, in order   *)
(*   out       the bytes the sink took                                     *)
(*   flushed   the sink's flush was called                                 *)
(***************************************************************************)
\* The writer never reads the value of a byte.  The bytes its caller writes
\* are labelled 1, 2, 3, ... by their place in the caller's stream, so that
\* a lost, repeated or reordered byte shows; storage that was never written
\* holds one of the values of Garbage.
Garbage == {0, 255}

Byte == Garbage \cup (1 .. MaxBytes)

Cells == 0 .. (DEFAULT_BUF_SIZE - 1)

\* Lengths a caller passes to write and skip_some: up to one more than the
\* capacity.
MaxLen == DEFAULT_BUF_SIZE + 1

\* What the sink does with a write_all: -1 takes all of it; k >= 0 fails
\* after taking k bytes (fewer than were passed).
SinkChoices == {-1} \cup Cells

\* BufWriter::capacity
Capacity == DEFAULT_BUF_SIZE

\* BufWriter::spare_capacity
SpareCapacity(p) == Capacity - p

\* BufWriter::buffer: the initialized prefix buf[..pos].
Buffer(p, b) == [i \in 1 .. p |-> b[i - 1]]

\* Write::write_all of the sink on the byte string d, the sink choosing f.
SinkWriteAll(d, f) ==
    IF f < 0 \/ f >= Len(d)
    THEN [ok |-> TRUE, out |-> d]
    ELSE [ok |-> FALSE, out |-> SubSeq(d, 1, f)]

\* flush_buf that resets pos before it hands the bytes to the sink.
MutFlushBufResetFirst(p, b, f) ==
    IF p > 0
    THEN LET w == SinkWriteAll(Buffer(p, b), f)
         IN  [pos |-> 0, buf |-> b, ok |-> w.ok,
              err |-> IF w.ok THEN "none" ELSE "write_all", n |-> 0,
              calls |-> <<Buffer(p, b)>>, out |-> w.out, flushed |-> FALSE]
    ELSE [pos |-> p, buf |-> b, ok |-> TRUE, err |-> "none", n |-> 0,
          calls |-> <<>>, out |-> <<>>, flushed |-> FALSE]

\* flush_buf that forgets to reset pos.
MutFlushBufKeepPos(p, b, f) ==
    IF p > 0
    THEN LET w == SinkWriteAll(Buffer(p, b), f)
         IN  [pos |-> p, buf |-> b, ok |-> w.ok,
              err |-> IF w.ok THEN "none" ELSE "write_all", n |-> 0,
              calls |-> <<Buffer(p, b)>>, out |-> w.out, flushed |-> FALSE]
    ELSE [pos |-> p, buf |-> b, ok |-> TRUE, err |-> "none", n |-> 0,
          calls |-> <<>>, out |-> <<>>, flushed |-> FALSE]

\* BufWriter::flush_buf
FlushBuf(p, b, f) ==
    IF p > 0
    THEN LET w == SinkWriteAll(Buffer(p, b), f)
         IN  [pos |-> IF w.ok THEN 0 ELSE p, buf |-> b, ok |-> w.ok,
              err |-> IF w.ok THEN "none" ELSE "write_all", n |-> 0,
              calls |-> <<Buffer(p, b)>>, out |-> w.out, flushed |-> FALSE]
    ELSE [pos |-> p, buf |-> b, ok |-> TRUE, err |-> "none", n |-> 0,
          calls |-> <<>>, out |-> <<>>, flushed |-> FALSE]

\* The call that needs no flush_buf.
NoFlush(p, b) ==
    [pos |-> p, buf |-> b, ok |-> TRUE, err |-> "none", n |-> 0,
     calls |-> <<>>, out |-> <<>>, flushed |-> FALSE]

\* buf[p .. p + n].copy_from_slice(d[..n])
CopyFromSlice(b, p, d, n) ==
    [i \in Cells |-> IF p <= i /\ i < p + n THEN d[i - p + 1] ELSE b[i]]

\* write that copies all it is given.
MutWriteCount(len, p) == len

\* The count write copies.
WriteCount(len, p) == Min(len, SpareCapacity(p))

\* write that flushes as soon as the bytes would fill the buffer.
MutBufWriteFlushEarly(p, b, d, f) ==
    LET fl == IF SpareCapacity(p) <= Len(d) THEN FlushBuf(p, b, f)
              ELSE NoFlush(p, b)
        written == WriteCount(Len(d), fl.pos)
    IN  IF ~fl.ok THEN fl
        ELSE [fl EXCEPT !.buf = CopyFromSlice(b, fl.pos, d, written),
                        !.pos = fl.pos + written,
                        !.n = written]

\* BufWriter::write
BufWrite(p, b, d, f) ==
    LET fl == IF SpareCapacity(p) < Len(d) THEN FlushBuf(p, b, f)
              ELSE NoFlush(p, b)
        written == WriteCount(Len(d), fl.pos)
    IN  IF ~fl.ok THEN fl
        ELSE [fl EXCEPT !.buf = CopyFromSlice(b, fl.pos, d, written),
                        !.pos = fl.pos + written,
                        !.n = written]

\* flush that calls the sink's flush whatever flush_buf returned.
MutBufFlushAlways(p, b, f, g) ==
    LET fl == FlushBuf(p, b, f)
    IN  [fl EXCEPT !.flushed = TRUE, !.ok = fl.ok /\ g,
                   !.err = IF ~fl.ok THEN fl.err
                           ELSE IF g THEN "none" ELSE "flush"]

\* BufWriter::flush; g: the sink's own flush succeeds.
BufFlush(p, b, f, g) ==
    LET fl == FlushBuf(p, b, f)
    IN  IF ~fl.ok THEN fl
        ELSE [fl EXCEPT !.flushed = TRUE, !.ok = g,
                        !.err = IF g THEN "none" ELSE "flush"]

\* skip_some that advances by all it is asked.
MutSkipCount(len, sparce) == len

\* The advance of skip_some.
SkipCount(len, sparce) == Min(len, sparce)

\* BufWriter::skip_some
BufSkipSome(p, b, len, f) ==
    LET fl == IF SpareCapacity(p) < len THEN FlushBuf(p, b, f)
              ELSE NoFlush(p, b)
    IN  IF ~fl.ok THEN fl
        ELSE [fl EXCEPT !.pos = fl.pos + SkipCount(len, SpareCapacity(fl.pos))]

\* into_inner on a plain self: the destructor runs when it returns.
MutIntoInnerLife == "live"

\* ManuallyDrop::new(self) in into_inner: the writer's destructor will not
\* run, whatever into_inner returns.
IntoInnerLife == "consumed"

\* BufWriter::into_inner
BufIntoInner(p, b, f) == FlushBuf(p, b, f)

\* A destructor that does not flush.
MutBufDropNoFlush(p, b, f) == NoFlush(p, b)

\* Drop for BufWriter: let _ = self.flush_buf()
BufDrop(p, b, f) == [FlushBuf(p, b, f) EXCEPT !.ok = TRUE, !.err = "none"]

(***************************************************************************)
(* Buf and BufMut.  A buffer is the byte sequence behind it (data), how    *)
(* many of its bytes the cursor has passed (pos), and the length of the    *)
(* contiguous pieces it is stored in (seg): chunk() never crosses a piece. *)
(* A slice is one piece (seg >= Len(data)).                                *)
(***************************************************************************)
\* Buf::remaining
BufRemaining(b) == Len(b.data) - b.pos

\* Buf::chunk and BufMut::chunk_mut: the bytes from the cursor to the end of
\* the piece the cursor is in; empty only when nothing remains.
BufChunk(b) ==
    SubSeq(b.data, b.pos + 1,
           b.pos + Min(BufRemaining(b), b.seg - (b.pos % b.seg)))

\* Buf::advance
BufAdvance(b, n) == [b EXCEPT !.pos = b.pos + n]

\* chunk[..Len(bytes)].copy_from_slice(bytes) on the chunk_mut of b.
ChunkCopyFromSlice(b, bytes) ==
    [b EXCEPT !.data = [i \in DOMAIN b.data |->
                           IF b.pos < i /\ i <= b.pos + Len(bytes)
                           THEN bytes[i - b.pos] ELSE b.data[i]]]

\* What a transfer function returns: Ok(cnt) or Err.
FnOk(cnt) == [ok |-> TRUE, cnt |-> cnt]

FnErr == [ok |-> FALSE, cnt |-> 0]

\* A loop body that adds one to the total for every call.
MutLoopBody(b, total, r) ==
    IF ~r.ok THEN [buf |-> b, total |-> total, pc |-> "done", ok |-> FALSE]
    ELSE IF r.cnt = 0
    THEN [buf |-> b, total |-> total, pc |-> "done", ok |-> TRUE]
    ELSE [buf |-> BufAdvance(b, r.cnt), total |-> total + 1, pc |-> "loop",
          ok |-> TRUE]

\* The body of the loop of read_with and fill_with once the chunk of b was
\* found non-empty and the transfer function has returned r: f(d)? returns
\* the error; a count of 0 breaks; otherwise advance and add.
LoopBody(b, total, r) ==
    IF ~r.ok THEN [buf |-> b, total |-> total, pc |-> "done", ok |-> FALSE]
    ELSE IF r.cnt = 0
    THEN [buf |-> b, total |-> total, pc |-> "done", ok |-> TRUE]
    ELSE [buf |-> BufAdvance(b, r.cnt), total |-> total + r.cnt,
          pc |-> "loop", ok |-> TRUE]

\* The loop with an empty chunk: break, and Ok(total).
LoopBreak(b, total) == [buf |-> b, total |-> total, pc |-> "done", ok |-> TRUE]

\* A closure of put that copies and does not advance src.
MutPutClosure(d, s) ==
    LET cnt == Min(Len(BufChunk(s)), Len(BufChunk(d)))
    IN  IF cnt = 0 THEN [r |-> FnOk(0), dst |-> d, src |-> s]
        ELSE [r |-> FnOk(cnt),
              dst |-> ChunkCopyFromSlice(d, SubSeq(BufChunk(s), 1, cnt)),
              src |-> s]

\* The closure put passes to fill_with, called on the chunk_mut of d with
\* the source s: what it returns and what it leaves of d and s.
PutClosure(d, s) ==
    LET cnt == Min(Len(BufChunk(s)), Len(BufChunk(d)))
    IN  IF cnt = 0 THEN [r |-> FnOk(0), dst |-> d, src |-> s]
        ELSE [r |-> FnOk(cnt),
              dst |-> ChunkCopyFromSlice(d, SubSeq(BufChunk(s), 1, cnt)),
              src |-> BufAdvance(s, cnt)]

(***************************************************************************)
(* State.                                                                  *)
(*   inner   the Inner behind the PollSet's mutex                          *)
(*   alive   the PollSet has not been dropped                              *)
(* History, which the program does not hold:                               *)
(*   regs    the task of every register call so far, in call order         *)
(*   fate    what became of the waker each register call stored            *)
(*   batch   the register calls made since the structure was last fresh    *)
(*   last    the last call: its name, the wakers pending and the batch     *)
(*           when it began, the wakers it invoked, its returned count      *)
(***************************************************************************)
VARIABLES inner, alive, regs, fate, batch, last

(***************************************************************************)
(* State of the BufWriter specification (SpecBuf).                         *)
(*   pos, buf  the writer's fields                                         *)
(*   sink      the bytes the sink has taken so far                         *)
(*   life      "live", "consumed" (by into_inner) or "dropped"             *)
(* History, which the program does not hold:                               *)
(*   res       the last call: its result record; pos before it (pos0);     *)
(*             when it failed, buf before it (buf0); when the call before  *)
(*             it failed in write_all, what that call passed (prev)        *)
(*   hist      accepted: the accepted prefixes of all writes, in order;    *)
(*             fails: failures of the sink; skipped: bytes skip_some       *)
(*             advanced over; intoInner: into_inner has been called;       *)
(*             plain: only write (and into_inner or the drop) has been     *)
(*             called; and, kept while plain holds, submits: write_all     *)
(*             calls; internal: those made inside write; allFull: each of  *)
(*             those passed a full buffer                                  *)
(***************************************************************************)
VARIABLES pos, buf, sink, life, res, hist

(***************************************************************************)
(* State of the threads that share the PollSet (SpecConc).                 *)
(*   lock      the thread that holds the spin lock, or 0                   *)
(*   pc        where each thread is                                        *)
(*   loc       each thread's locals: the waker it registers (labelled with *)
(*             its place in the order of stores once it is stored); for    *)
(*             wake, the structure it detached and the returned count      *)
(* History, which the program does not hold:                               *)
(*   returned  the register calls that have returned                       *)
(*   seen      for each thread in wake, the register calls that had        *)
(*             returned when its call began                                *)
(*   wokeLocked  a waker has been invoked by a thread holding the lock     *)
(***************************************************************************)
VARIABLES lock, pc, loc, returned, seen, wokeLocked

(***************************************************************************)
(* State of the draining loops (SpecPut).                                  *)
(*   dst    the BufMut that fill_with and put fill                         *)
(*   src    the Buf that read_with drains and put copies from              *)
(*   drain  the call in progress: its name (op), where it is (pc), the     *)
(*          loop's local total, whether it returned Ok (ok)                *)
(* History, which the program does not hold, kept in drain:                *)
(*   counts  the counts the transfer function returned in Ok, in order     *)
(*   dst0, src0  the two buffers when the call began                       *)
(***************************************************************************)
VARIABLES dst, src, drain

putVars == <<dst, src, drain>>

pollVars == <<inner, alive, regs, fate, batch, last>>

concVars == <<lock, pc, loc, returned, seen, wokeLocked>>

bufVars == <<pos, buf, sink, life, res, hist>>

vars == <<pollVars, concVars, bufVars, putVars>>

Ids(ws) == [k \in DOMAIN ws |-> ws[k].id]

IdSet(ws) == {ws[k].id : k \in DOMAIN ws}

\* fate f with every register call in the set ids marked v.
Mark(f, ids, v) == [i \in DOMAIN f |-> IF i \in ids THEN v ELSE f[i]]

\* The register calls whose stored waker has been neither woken nor discarded.
Pending == {i \in DOMAIN fate : fate[i] = "stored"}

NoCall == [op |-> "new", pending |-> {}, batch |-> <<>>, woken |-> <<>>, ret |-> 0]

NoRes ==
    [op |-> "new", ok |-> TRUE, err |-> "none", n |-> 0, calls |-> <<>>,
     flushed |-> FALSE, pos0 |-> 0, buf0 |-> [c \in Cells |-> 0],
     prev |-> <<>>]

NoHist ==
    [accepted |-> <<>>, submits |-> 0, internal |-> 0,
     fails |-> 0, skipped |-> 0, plain |-> TRUE, allFull |-> TRUE,
     intoInner |-> FALSE]

PollInit ==
    /\ inner = InnerNew
    /\ alive = TRUE
    /\ regs = <<>>
    /\ fate = <<>>
    /\ batch = <<>>
    /\ last = NoCall

\* BufWriter::new: pos = 0 over storage that holds whatever it holds (s).
BufInit(s) ==
    /\ pos = 0
    /\ buf = s
    /\ sink = <<>>
    /\ life = "live"
    /\ res = NoRes
    /\ hist = NoHist

Threads == 1 .. NumThreads

\* The tasks the threads register: two, for will_wake to hold and to fail
\* (tasks are interchangeable: the first to register is task 1).
ConcTasks == {1, 2}

\* Number of register calls in one run of the threads: what it takes for
\* the cursor to come back to 0.
MaxConcRegs == 2 * POLL_SET_CAPACITY

NoLocals == [waker |-> Uninit, detached |-> <<>>, ret |-> 0]

ConcInit ==
    /\ lock = 0
    /\ pc = [th \in Threads |-> "idle"]
    /\ loc = [th \in Threads |-> NoLocals]
    /\ returned = {}
    /\ seen = [th \in Threads |-> {}]
    /\ wokeLocked = FALSE

\* A buffer over the bytes data, stored in pieces of sg bytes, cursor at 0.
NewBuf(data, sg) == [data |-> data, pos |-> 0, seg |-> sg]

NoDrain ==
    [op |-> "none", pc |-> "idle", total |-> 0, counts |-> <<>>,
     ok |-> TRUE, dst0 |-> NewBuf(<<>>, 1), src0 |-> NewBuf(<<>>, 1)]

\* No buffer in use.
PutIdle ==
    /\ dst = NewBuf(<<>>, 1)
    /\ src = NewBuf(<<>>, 1)
    /\ drain = NoDrain

Init == PollInit /\ ConcInit /\ BufInit([c \in Cells |-> 0]) /\ PutIdle

\* Tasks are interchangeable: a run names them in the order in which they
\* first register.
NextTasks == {t \in Tasks : \A u \in 1 .. (t - 1) : \E k \in DOMAIN regs : regs[k] = u}

\* PollSet::register(waker of task t), called with no other call in progress.
Register(t) ==
    /\ alive
    /\ Len(regs) < MaxRegs
    /\ t \in NextTasks
    /\ LET k == Len(regs) + 1
           r == InnerRegister(inner, Waker(t, k))
       IN  /\ inner' = r.inner
           /\ regs' = Append(regs, t)
           /\ fate' = Mark(Mark(Mark(Append(fate, "stored"),
                                     IdSet(r.woke), "evicted"),
                                IdSet(r.dropped), "deduped"),
                           IdSet(r.lost), "overwritten")
           /\ batch' = Append(batch, k)
           /\ last' = [op |-> "register", pending |-> Pending, batch |-> batch,
                       woken |-> Ids(r.woke), ret |-> 0]
    /\ UNCHANGED alive
    /\ UNCHANGED <<concVars, bufVars, putVars>>

\* What dropping the structures in ds (a sequence of Inner) wakes and leaves.
Woken(ds) == IF ds = <<>> THEN <<>> ELSE InnerDrop(ds[1])

Left(ds) == IF ds = <<>> THEN {} ELSE InnerDropLeft(ds[1])

\* PollSet::wake, called with no other call in progress: the detached
\* structure is dropped as wake returns.
Wake ==
    /\ alive
    /\ LET r == PollSetWake(inner)
           w == Woken(r.detached)
       IN  /\ inner' = r.inner
           /\ fate' = Mark(Mark(fate, IdSet(w), "woken"),
                           {x.id : x \in Left(r.detached)}, "abandoned")
           /\ batch' = IF r.detached = <<>> THEN batch ELSE <<>>
           /\ last' = [op |-> "wake", pending |-> Pending, batch |-> batch,
                       woken |-> Ids(w), ret |-> r.ret]
    /\ UNCHANGED <<alive, regs>>
    /\ UNCHANGED <<concVars, bufVars, putVars>>

\* Drop for PollSet: self.wake(), then the drop of the field, which runs Drop
\* for Inner on the structure still behind the mutex.
Drop ==
    /\ alive
    /\ LET r == PollSetWake(inner)
           w == Woken(r.detached) \o InnerDrop(r.inner)
           l == Left(r.detached) \cup InnerDropLeft(r.inner)
       IN  /\ inner' = r.inner
           /\ fate' = Mark(Mark(fate, IdSet(w), "woken"),
                           {x.id : x \in l}, "abandoned")
           /\ batch' = <<>>
           /\ last' = [op |-> "drop", pending |-> Pending, batch |-> batch,
                       woken |-> Ids(w), ret |-> r.ret]
    /\ alive' = FALSE
    /\ UNCHANGED regs
    /\ UNCHANGED <<concVars, bufVars, putVars>>

Next ==
    \/ \E t \in Tasks : Register(t)
    \/ Wake
    \/ Drop

Spec == Init /\ [][Next]_vars

\* How often x occurs in the sequence s.
Count(x, s) == Cardinality({k \in DOMAIN s : s[k] = x})

\* The register calls of the batch b that were made for task t.
OfTask(t, b) == {k \in DOMAIN b : regs[b[k]] = t}

\* The wakers of the batch b belong to pairwise distinct tasks.
Distinct(b) == \A i, j \in DOMAIN b : i # j => regs[b[i]] # regs[b[j]]

TypeOK ==
    /\ inner.cursor \in 0 .. (2 * POLL_SET_CAPACITY - 1)
    /\ Len(fate) = Len(regs)
    /\ \A s \in Slots : s < InnerLen(inner) => inner.entries[s] # Uninit

(***************************************************************************)
(* The PollSet shared by threads (SpecConc).  A call to register or wake   *)
(* is the steps: spin until the lock is free and take it; the critical     *)
(* section; release.  wake drops the structure it detached after it has    *)
(* released the lock.                                                      *)
(***************************************************************************)

\* The threads that have called register and not yet stored their waker.
Registering == {th \in Threads : pc[th] \in {"reg_lock", "reg_cs"}}

\* Thread th calls register with the waker of task t.
CallRegister(th, t) ==
    /\ pc[th] = "idle"
    /\ Len(fate) + Cardinality(Registering) < MaxConcRegs
    /\ (Len(fate) + Cardinality(Registering) = 0) => t = 1
    /\ loc' = [loc EXCEPT ![th] = [NoLocals EXCEPT !.waker = Waker(t, 0)]]
    /\ pc' = [pc EXCEPT ![th] = "reg_lock"]
    /\ UNCHANGED <<pollVars, lock, returned, seen, wokeLocked, bufVars, putVars>>

\* Thread th calls wake.
CallWake(th) ==
    /\ pc[th] = "idle"
    /\ loc' = [loc EXCEPT ![th] = NoLocals]
    /\ seen' = [seen EXCEPT ![th] = returned]
    /\ pc' = [pc EXCEPT ![th] = "wake_lock"]
    /\ UNCHANGED <<pollVars, lock, returned, wokeLocked, bufVars, putVars>>

\* self.0.lock(): the spin lock is free and th takes it.
Acquire(th) ==
    /\ pc[th] \in {"reg_lock", "wake_lock"}
    /\ lock = 0
    /\ lock' = th
    /\ pc' = [pc EXCEPT ![th] = IF pc[th] = "reg_lock" THEN "reg_cs"
                                ELSE "wake_cs"]
    /\ UNCHANGED <<pollVars, loc, returned, seen, wokeLocked, bufVars, putVars>>

\* Inner::register under the lock, its wake of the evicted waker included.
RegisterLocked(th) ==
    /\ pc[th] = "reg_cs"
    /\ lock = th
    /\ LET w == Waker(loc[th].waker.task, Len(fate) + 1)
           r == InnerRegister(inner, w)
       IN  /\ inner' = r.inner
           /\ fate' = Mark(Mark(Mark(Append(fate, "stored"),
                                     IdSet(r.woke), "evicted"),
                                IdSet(r.dropped), "deduped"),
                           IdSet(r.lost), "overwritten")
           /\ wokeLocked' = (wokeLocked \/ r.woke # <<>>)
           /\ loc' = [loc EXCEPT ![th].waker = w]
    /\ pc' = [pc EXCEPT ![th] = "reg_unlock"]
    /\ UNCHANGED <<alive, regs, batch, last, lock, returned, seen, bufVars, putVars>>

\* The guard of register is dropped and register returns.
RegisterReturn(th) ==
    /\ pc[th] = "reg_unlock"
    /\ lock = th
    /\ lock' = 0
    /\ returned' = returned \cup {loc[th].waker.id}
    /\ pc' = [pc EXCEPT ![th] = "idle"]
    /\ UNCHANGED <<pollVars, loc, seen, wokeLocked, bufVars, putVars>>

\* wake under the lock, on a structure that is_empty: return 0, the guard
\* dropped on the way out.
WakeEmpty(th) ==
    /\ pc[th] = "wake_cs"
    /\ lock = th
    /\ PollSetWake(inner).detached = <<>>
    /\ lock' = 0
    /\ last' = [op |-> "wake", pending |-> seen[th], batch |-> <<>>,
                woken |-> <<>>, ret |-> PollSetWake(inner).ret]
    /\ pc' = [pc EXCEPT ![th] = "idle"]
    /\ UNCHANGED <<inner, alive, regs, fate, batch, loc, returned, seen,
                   wokeLocked, bufVars, putVars>>

\* wake under the lock: mem::replace(&mut *guard, Inner::new()).
WakeDetach(th) ==
    /\ pc[th] = "wake_cs"
    /\ lock = th
    /\ LET r == PollSetWake(inner)
       IN  /\ r.detached # <<>>
           /\ inner' = r.inner
           /\ fate' = Mark(fate, IdSet(Woken(r.detached)), "detached")
           /\ loc' = [loc EXCEPT ![th] = [NoLocals EXCEPT
                                            !.detached = r.detached,
                                            !.ret = r.ret]]
    /\ pc' = [pc EXCEPT ![th] = "wake_unlock"]
    /\ UNCHANGED <<alive, regs, batch, last, lock, returned, seen,
                   wokeLocked, bufVars, putVars>>

\* drop(guard)
WakeUnlock(th) ==
    /\ pc[th] = "wake_unlock"
    /\ lock = th
    /\ lock' = 0
    /\ pc' = [pc EXCEPT ![th] = "wake_drop"]
    /\ UNCHANGED <<pollVars, loc, returned, seen, wokeLocked, bufVars, putVars>>

\* wake returns inner.len(): the detached structure goes out of scope and
\* Drop for Inner wakes its entries.
WakeReturn(th) ==
    /\ pc[th] = "wake_drop"
    /\ LET w == Woken(loc[th].detached)
       IN  /\ fate' = Mark(Mark(fate, IdSet(w), "woken"),
                           {x.id : x \in Left(loc[th].detached)}, "abandoned")
           /\ last' = [op |-> "wake", pending |-> seen[th], batch |-> <<>>,
                       woken |-> Ids(w), ret |-> loc[th].ret]
           /\ wokeLocked' = (wokeLocked \/ (w # <<>> /\ lock = th))
    /\ loc' = [loc EXCEPT ![th] = NoLocals]
    /\ pc' = [pc EXCEPT ![th] = "idle"]
    /\ UNCHANGED <<inner, alive, regs, batch, lock, returned, seen, bufVars, putVars>>

NextConc ==
    \/ \E th \in Threads, t \in ConcTasks : CallRegister(th, t)
    \/ \E th \in Threads : CallWake(th)
    \/ \E th \in Threads : Acquire(th)
    \/ \E th \in Threads : RegisterLocked(th)
    \/ \E th \in Threads : RegisterReturn(th)
    \/ \E th \in Threads : WakeEmpty(th)
    \/ \E th \in Threads : WakeDetach(th)
    \/ \E th \in Threads : WakeUnlock(th)
    \/ \E th \in Threads : WakeReturn(th)

SpecConc == Init /\ [][NextConc]_vars

ConcTypeOK ==
    /\ lock \in {0} \cup Threads
    /\ \A th \in Threads :
          pc[th] \in {"reg_cs", "reg_unlock", "wake_cs", "wake_unlock"}
              <=> lock = th

(***************************************************************************)
(* The BufWriter, used by its one owner (SpecBuf).                         *)
(***************************************************************************)

\* The sink failed during the call with result r.
SinkFailed(r) == r.err # "none" \/ (r.calls # <<>> /\ r.out # r.calls[1])

\* The state after the call op with result r that accepted the bytes acc,
\* skipped sk bytes and leaves the writer in life l.
Apply(op, r, acc, sk, l) ==
    /\ pos' = r.pos
    /\ buf' = r.buf
    /\ sink' = sink \o r.out
    /\ life' = l
    /\ res' = [op |-> op, ok |-> r.ok, err |-> r.err, n |-> r.n,
               calls |-> r.calls, flushed |-> r.flushed,
               pos0 |-> pos, buf0 |-> IF r.ok THEN r.buf ELSE buf,
               prev |-> IF res.err = "write_all" THEN res.calls ELSE <<>>]
    /\ hist' = LET pl == hist.plain /\ op \in {"write", "into_inner", "drop"}
               IN  [accepted |-> hist.accepted \o acc,
                    fails |-> hist.fails + (IF SinkFailed(r) THEN 1 ELSE 0),
                    skipped |-> hist.skipped + sk,
                    plain |-> pl,
                    submits |-> IF pl THEN hist.submits + Len(r.calls) ELSE 0,
                    internal |-> IF pl /\ op = "write"
                                 THEN hist.internal + Len(r.calls)
                                 ELSE IF pl THEN hist.internal ELSE 0,
                    allFull |-> pl => (hist.allFull
                                  /\ (op = "write" => \A k \in DOMAIN r.calls :
                                         Len(r.calls[k]) = Capacity)),
                    intoInner |-> hist.intoInner \/ op = "into_inner"]
    /\ UNCHANGED <<pollVars, concVars, putVars>>

\* The sink may fail in this call.
MayFail(f) == f = -1 \/ hist.fails < MaxFails

Budget(len) == Len(hist.accepted) + hist.skipped + len <= MaxBytes

\* The next len bytes of the caller's stream.
Chunk(len) == [i \in 1 .. len |-> Len(hist.accepted) + i]

Write(len, f) ==
    /\ life = "live"
    /\ MayFail(f)
    /\ Budget(len)
    /\ LET d == Chunk(len)
           r == BufWrite(pos, buf, d, f)
       IN  Apply("write", r, SubSeq(d, 1, r.n), 0, life)

Flush(f, g) ==
    /\ life = "live"
    /\ MayFail(f)
    /\ g \/ hist.fails < MaxFails
    /\ Apply("flush", BufFlush(pos, buf, f, g), <<>>, 0, life)

FlushBufCall(f) ==
    /\ life = "live"
    /\ MayFail(f)
    /\ Apply("flush_buf", FlushBuf(pos, buf, f), <<>>, 0, life)

SkipSome(len, f) ==
    /\ life = "live"
    /\ MayFail(f)
    /\ Budget(len)
    /\ LET r == BufSkipSome(pos, buf, len, f)
       IN  Apply("skip_some", r, <<>>, IF r.ok THEN r.pos - (IF r.calls = <<>> THEN pos ELSE 0) ELSE 0, life)

IntoInner(f) ==
    /\ life = "live"
    /\ MayFail(f)
    /\ Apply("into_inner", BufIntoInner(pos, buf, f), <<>>, 0, IntoInnerLife)

\* The writer goes out of scope: its destructor runs.
DropWriter(f) ==
    /\ life = "live"
    /\ MayFail(f)
    /\ Apply("drop", BufDrop(pos, buf, f), <<>>, 0, "dropped")

NextBuf ==
    \/ \E len \in 0 .. MaxLen, f \in SinkChoices : Write(len, f)
    \/ \E f \in SinkChoices, g \in BOOLEAN : Flush(f, g)
    \/ \E f \in SinkChoices : FlushBufCall(f)
    \/ \E len \in 0 .. MaxLen, f \in SinkChoices : SkipSome(len, f)
    \/ \E f \in SinkChoices : IntoInner(f)
    \/ \E f \in SinkChoices : DropWriter(f)

InitBuf ==
    /\ PollInit
    /\ ConcInit
    /\ PutIdle
    /\ \E s \in [Cells -> Garbage] : BufInit(s)

SpecBuf == InitBuf /\ [][NextBuf]_vars

BufTypeOK ==
    /\ pos \in Nat
    /\ buf \in [Cells -> Byte]
    /\ life \in {"live", "consumed", "dropped"}

(***************************************************************************)
(* The draining loops of Buf and BufMut (SpecPut).  The destination is a   *)
(* buffer of zeros and the source holds the bytes 1, 2, 3, ... (a copied   *)
(* byte shows where it came from); each is stored in pieces of any length. *)
(* A call is the steps: enter the loop; one iteration per step; the        *)
(* iteration that breaks or returns Err ends the call.                     *)
(***************************************************************************)

\* The buffer the loop of the call in progress runs on: read_with is called
\* on the source, fill_with and put on the destination.
DrainSelf == IF drain.op = "read_with" THEN src ELSE dst

\* read_with, fill_with or put is called: read = 0 (written = 0).
Begin(op) ==
    /\ drain.pc # "loop"
    /\ drain' = [op |-> op, pc |-> "loop", total |-> 0, counts |-> <<>>,
                 ok |-> TRUE, dst0 |-> dst, src0 |-> src]
    /\ UNCHANGED <<dst, src>>
    /\ UNCHANGED <<pollVars, concVars, bufVars>>

\* The drain record after an iteration with loop-body result lb, the
\* transfer function having returned r.
Iterated(lb, r) ==
    [drain EXCEPT !.pc = lb.pc, !.total = lb.total, !.ok = lb.ok,
                  !.counts = IF r.ok THEN Append(drain.counts, r.cnt)
                             ELSE drain.counts]

\* An iteration that finds the chunk empty: break.
BreakOnEmpty ==
    /\ drain.pc = "loop"
    /\ BufChunk(DrainSelf) = <<>>
    /\ LET lb == LoopBreak(DrainSelf, drain.total)
       IN  drain' = [drain EXCEPT !.pc = lb.pc, !.total = lb.total,
                                  !.ok = lb.ok]
    /\ UNCHANGED <<dst, src>>
    /\ UNCHANGED <<pollVars, concVars, bufVars>>

\* An iteration of read_with or fill_with on a non-empty chunk; the caller's
\* transfer function returns Err (out < 0) or Ok(out), and in fill_with has
\* written the out bytes it reports (here: their offsets in the buffer).
Transfer(out) ==
    /\ drain.pc = "loop"
    /\ drain.op \in {"read_with", "fill_with"}
    /\ BufChunk(DrainSelf) # <<>>
    /\ out <= Len(BufChunk(DrainSelf))
    /\ LET r == IF out < 0 THEN FnErr ELSE FnOk(out)
           b == IF drain.op = "fill_with"
                THEN ChunkCopyFromSlice(dst, [i \in 1 .. r.cnt |-> dst.pos + i])
                ELSE src
           lb == LoopBody(b, drain.total, r)
       IN  /\ drain' = Iterated(lb, r)
           /\ IF drain.op = "fill_with"
              THEN dst' = lb.buf /\ UNCHANGED src
              ELSE src' = lb.buf /\ UNCHANGED dst
    /\ UNCHANGED <<pollVars, concVars, bufVars>>

\* An iteration of put on a non-empty chunk_mut: the closure, then the rest
\* of the loop body of fill_with.
PutStep ==
    /\ drain.pc = "loop"
    /\ drain.op = "put"
    /\ BufChunk(dst) # <<>>
    /\ LET c == PutClosure(dst, src)
           lb == LoopBody(c.dst, drain.total, c.r)
       IN  /\ drain' = Iterated(lb, c.r)
           /\ dst' = lb.buf
           /\ src' = c.src
    /\ UNCHANGED <<pollVars, concVars, bufVars>>

NextPut ==
    \/ Begin("read_with")
    \/ Begin("fill_with")
    \/ Begin("put")
    \/ BreakOnEmpty
    \/ \E out \in -1 .. MaxBufLen : Transfer(out)
    \/ PutStep

InitPut ==
    /\ PollInit
    /\ ConcInit
    /\ BufInit([c \in Cells |-> 0])
    /\ \E n \in 0 .. MaxBufLen, m \in 0 .. MaxBufLen :
          \E sd \in 1 .. MaxBufLen, ss \in 1 .. MaxBufLen :
             /\ dst = NewBuf([i \in 1 .. n |-> 0], sd)
             /\ src = NewBuf([i \in 1 .. m |-> i], ss)
    /\ drain = NoDrain

SpecPut == InitPut /\ [][NextPut]_vars

\* A loop iteration that is enabled is eventually taken: the caller's thread
\* runs.
SpecPutFair == SpecPut /\ WF_vars(BreakOnEmpty \/ PutStep \/ \E out \in -1 .. MaxBufLen : Transfer(out))

PutTypeOK ==
    /\ dst.pos \in 0 .. Len(dst.data)
    /\ src.pos \in 0 .. Len(src.data)
    /\ drain.pc \in {"idle", "loop", "done"}

(***************************************************************************)
(* Claims about the PollSet, one caller at a time (Spec).                  *)
(***************************************************************************)

\* C1 (as claimed): no waker passed to register is discarded or overwritten
\* un-woken: none is overwritten in its slot without being read, none is left
\* in a structure that is dropped without reading it, and once the PollSet
\* is dropped none is still waiting.  (A waker dropped by the will_wake check
\* is not counted as lost: its task holds the handle that replaced it.)
C1_NoWakerLost ==
    /\ \A i \in DOMAIN fate : fate[i] \notin {"overwritten", "abandoned"}
    /\ ~alive => Pending = {}

\* C3 (as claimed): a wake() that follows K registrations of pairwise
\* distinct wakers on a fresh PollSet invokes each of the K exactly once,
\* for every K.
C3_WakeInvokesAllK ==
    (last.op = "wake" /\ Distinct(last.batch))
        => \A k \in DOMAIN last.batch : Count(last.batch[k], last.woken) = 1

\* C3 (amended): for K <= POLL_SET_CAPACITY, a wake() that follows K
\* registrations of pairwise distinct wakers on a fresh PollSet invokes
\* exactly those K wakers, each once (in registration order), and returns K.
C3_WakeInvokesUpToCapacity ==
    (last.op = "wake" /\ Distinct(last.batch)
        /\ Len(last.batch) <= POLL_SET_CAPACITY)
        => last.woken = last.batch

C3_Witness ==
    /\ last.op = "wake"
    /\ Distinct(last.batch)
    /\ Len(last.batch) = POLL_SET_CAPACITY
    /\ last.woken = last.batch

\* C9 (as claimed): dropping the PollSet invokes every waker that was pending
\* (registered, not yet woken) when the drop began, each exactly once.
C9_DropWakesAllPending ==
    last.op = "drop"
        => \A i \in last.pending : Count(i, last.woken) = 1

\* The wakers of task t among the register calls ids (a sequence).
TaskCount(t, ids) == Cardinality({k \in DOMAIN ids : regs[ids[k]] = t})

\* C10 (as claimed): a task registered twice before a wake() is invoked at
\* most once by that wake().
C10_TwiceRegisteredWokenOnce ==
    last.op = "wake"
        => \A t \in Tasks :
              TaskCount(t, last.batch) = 2 => TaskCount(t, last.woken) <= 1

\* C10 (amended): a task registered twice before a wake() is invoked at most
\* twice by that wake(): once for each of its wakers still stored.
C10_TwiceRegisteredWokenAtMostTwice ==
    last.op = "wake"
        => \A t \in Tasks :
              TaskCount(t, last.batch) = 2 => TaskCount(t, last.woken) <= 2

C10_Witness ==
    /\ last.op = "wake"
    /\ \E t \in Tasks :
          TaskCount(t, last.batch) = 2 /\ TaskCount(t, last.woken) = 2

\* C11: the count wake() returns is the number of wakers that call invokes,
\* whatever registrations, evictions and wakes came before; so it is 0
\* exactly when the call invokes nothing.
C11_WakeReturnsInvokedCount ==
    last.op = "wake"
        => /\ last.ret = Len(last.woken)
           /\ (last.ret = 0) <=> (last.woken = <<>>)

\* A wake() after more than POLL_SET_CAPACITY registrations, some of them
\* evicted: it invokes and counts the POLL_SET_CAPACITY wakers still stored.
C11_Witness ==
    /\ last.op = "wake"
    /\ Len(last.batch) > POLL_SET_CAPACITY
    /\ \E i \in DOMAIN fate : fate[i] = "evicted"
    /\ last.ret = POLL_SET_CAPACITY
    /\ Len(last.woken) = POLL_SET_CAPACITY

\* C12: a wake() that immediately follows a wake() (no register in between)
\* invokes no waker and returns 0; the PollSet is left as a new one and the
\* call is an ordinary return.
C12_SecondWakeInvokesNone ==
    [][(last.op = "wake" /\ Wake)
          => (last'.op = "wake" /\ last'.woken = <<>> /\ last'.ret = 0
              /\ inner' = inner /\ alive')]_vars

\* The second of two wake() calls in a row has returned 0, the first having
\* detached the wakers registered before it (the batch was emptied by a
\* wake, and no register has been called since).
C12_Witness ==
    /\ last.op = "wake"
    /\ regs # <<>>
    /\ last.batch = <<>>
    /\ \E i \in DOMAIN fate : fate[i] = "woken"
    /\ last.pending = {}
    /\ last.woken = <<>>
    /\ last.ret = 0
    /\ inner = InnerNew

\* The last two register calls before the last call were made for task t,
\* one right after the other, and are the only ones made for t since the
\* structure was fresh.
TwiceInSuccession(t) ==
    LET b == last.batch
    IN  /\ Len(b) >= 2
        /\ regs[b[Len(b)]] = t
        /\ regs[b[Len(b) - 1]] = t
        /\ TaskCount(t, b) = 2

\* C17: when a task's waker is registered twice in immediate succession and
\* wake() is then called, the task is invoked at most twice in all: the
\* wake() invokes it at most twice, and a register call made for a task
\* never invokes that task (the waker it evicts is woken only if it belongs
\* to another task).
C17_TwiceInSuccessionAtMostTwice ==
    /\ [](\A t \in Tasks :
             (last.op = "wake" /\ TwiceInSuccession(t))
                 => TaskCount(t, last.woken) <= 2)
    /\ [][\A t \in Tasks : Register(t) => TaskCount(t, last'.woken) = 0]_vars

\* The ring was full of other tasks' wakers; the two register calls for the
\* task evicted two of them, and the wake() invoked the task twice.
C17_Witness ==
    /\ last.op = "wake"
    /\ Len(last.batch) > POLL_SET_CAPACITY
    /\ \E t \in Tasks :
          /\ TwiceInSuccession(t)
          /\ TaskCount(t, last.woken) = 2
          /\ fate[Len(regs)] = "woken"
          /\ fate[Len(regs) - 1] = "woken"

\* C18 (as claimed): a register call that stores into a slot holding a
\* live waker evicts it, by a wake or, when it will_wake the same task, by a
\* drop; for no cursor is a live waker overwritten in place, unread.
C18_LiveEntryEvicted ==
    \A i \in DOMAIN fate :
        fate[i] \in {"stored", "woken", "evicted", "deduped", "abandoned"}

(***************************************************************************)
(* Claims about the BufWriter (SpecBuf).                                   *)
(***************************************************************************)

\* C4: a call whose flush_buf failed in the sink's write_all returns the
\* error and leaves pos and the whole buffer as they were before the call
\* (so no caller byte was copied); and a flush_buf that follows a call that
\* failed so passes the sink the same bytes again.
C4_FailedFlushKeepsBuffer ==
    /\ res.err = "write_all"
          => /\ ~res.ok
             /\ res.n = 0
             /\ pos = res.pos0
             /\ buf = res.buf0
    /\ (res.op = "flush_buf" /\ res.prev # <<>>) => res.calls = res.prev

C4_Witness ==
    /\ res.op = "flush_buf"
    /\ res.prev # <<>>
    /\ res.calls = res.prev
    /\ res.ok
    /\ pos = 0

\* C5: while the sink has not failed and skip_some has skipped nothing, the
\* bytes the sink has taken followed by buffer() are the accepted prefixes
\* of all writes in call order: none lost, repeated or reordered.  And a
\* call that flushed passed the sink the bytes accepted since the flush
\* before it: the sink then holds all that was accepted before the call.
C5_SinkThenBufferIsAccepted ==
    (hist.fails = 0 /\ hist.skipped = 0)
        => /\ sink \o Buffer(pos, buf) = hist.accepted
           /\ res.calls # <<>>
                 => sink = SubSeq(hist.accepted, 1, Len(hist.accepted) - res.n)

C5_Witness ==
    /\ hist.fails = 0
    /\ hist.skipped = 0
    /\ Len(hist.accepted) = MaxBytes
    /\ Len(sink) > Capacity
    /\ pos > 0
    /\ sink \o Buffer(pos, buf) = hist.accepted

\* C6: 0 <= pos <= capacity() in every state, so spare_capacity() does not
\* underflow.
C6_PosWithinCapacity ==
    /\ 0 <= pos
    /\ pos <= Capacity
    /\ SpareCapacity(pos) >= 0

C6_Witness ==
    /\ res.op = "skip_some"
    /\ res.calls # <<>>
    /\ res.ok
    /\ pos = Capacity

\* Runs of write calls alone on a live writer whose sink has not failed.
WritesOnly == hist.plain /\ life = "live" /\ hist.fails = 0

BelowCapacity ==
    hist.plain /\ hist.internal = 0 /\ Len(hist.accepted) < Capacity

\* C8: after writes of total length below capacity, into_inner that returns
\* Ok leaves the sink with exactly the written bytes; and, Ok or Err, the
\* writer is consumed (its destructor does not run) and the buffered bytes
\* were passed to the sink at most once in the writer's life.
C8_IntoInnerSubmitsOnce ==
    (hist.intoInner /\ BelowCapacity)
        => /\ hist.submits <= 1
           /\ life = "consumed"
           /\ res.ok => (sink = hist.accepted /\ pos = 0)

C8_Witness ==
    /\ hist.intoInner
    /\ BelowCapacity
    /\ Len(hist.accepted) > 0
    /\ life = "consumed"
    /\ res.ok
    /\ sink = hist.accepted
    /\ hist.submits = 1

\* C13: write(bytes) passes the buffered bytes to the sink first exactly
\* when len(bytes) > C - pos (and there are buffered bytes to pass); when it
\* returns Ok it has copied min(len(bytes), spare capacity after that flush)
\* bytes, the first of bytes in order, at offset pos, moved pos by that count
\* and returned it, leaving the rest of the storage alone.  So a write of at
\* most C bytes is accepted whole and a write of more than C returns C.
C13_WriteFlushesThenCopies ==
    [][\A len \in 0 .. MaxLen, f \in SinkChoices :
          (res'.op = "write" /\ Write(len, f))
              => LET over == len > Capacity - pos
                     at == IF over THEN 0 ELSE pos
                     cnt == Min(len, Capacity - at)
                 IN  /\ res'.calls = IF over /\ pos > 0
                                     THEN <<Buffer(pos, buf)>> ELSE <<>>
                     /\ res'.ok
                           => /\ res'.n = cnt
                              /\ pos' = at + cnt
                              /\ \A c \in Cells :
                                    buf'[c] = IF at <= c /\ c < at + cnt
                                              THEN Chunk(len)[c - at + 1]
                                              ELSE buf[c]
                              /\ len <= Capacity => res'.n = len
                              /\ len > Capacity => res'.n = Capacity]_vars

\* A write found bytes buffered and no room for its own: it passed the
\* buffered bytes to the sink, copied a buffer-full of its bytes at offset
\* 0 and returned that count.
C13_Witness ==
    /\ res.op = "write"
    /\ res.ok
    /\ res.pos0 > 0
    /\ res.calls = <<[i \in 1 .. res.pos0 |-> Len(hist.accepted) - Capacity - res.pos0 + i]>>
    /\ res.n = Capacity
    /\ pos = Capacity
    /\ Buffer(pos, buf) = SubSeq(hist.accepted, Len(hist.accepted) - Capacity + 1, Len(hist.accepted))

\* C14: flush() passes the buffered bytes to the sink and only then calls
\* the sink's own flush, and returns the first error.  When write_all
\* fails, the sink's flush is not called and pos and the buffer stay as they
\* were; the sink's flush is called only with the buffer emptied; and when
\* flush() returns Ok, pos = 0, the sink was handed the buffered bytes (if
\* there were any) and its flush was called.
C14_FlushBufThenSinkFlush ==
    res.op = "flush"
        => /\ res.calls = IF res.pos0 > 0 THEN <<Buffer(res.pos0, res.buf0)>>
                          ELSE <<>>
           /\ res.err = "write_all"
                 => /\ ~res.ok
                    /\ ~res.flushed
                    /\ pos = res.pos0
                    /\ buf = res.buf0
           /\ res.flushed => (res.err # "write_all" /\ pos = 0)
           /\ res.err = "flush" => (~res.ok /\ res.flushed)
           /\ res.ok <=> res.err = "none"
           /\ res.ok => (res.flushed /\ pos = 0)

\* flush() failed in write_all with bytes buffered: the sink's flush was
\* not called and the bytes are still buffered.
C14_Witness ==
    /\ res.op = "flush"
    /\ res.err = "write_all"
    /\ ~res.flushed
    /\ res.pos0 > 0
    /\ pos = res.pos0
    /\ Buffer(pos, buf) = res.calls[1]

\* C15: the destructor of a writer that was not consumed by into_inner
\* passes the bytes still buffered, buf[..pos], to the sink in one write_all
\* (none when nothing is buffered).  When the sink takes them they are the
\* last bytes of the sink, and with no earlier failure or skip the sink
\* holds all accepted bytes; when the sink fails, the destructor still
\* completes and reports nothing.
C15_DropFlushesOnce ==
    res.op = "drop"
        => /\ life = "dropped"
           /\ ~hist.intoInner
           /\ res.calls = IF res.pos0 > 0 THEN <<Buffer(res.pos0, buf)>>
                          ELSE <<>>
           /\ res.ok
           /\ res.err = "none"
           /\ (res.pos0 > 0 /\ pos = 0)
                 => /\ Len(sink) >= res.pos0
                    /\ SubSeq(sink, Len(sink) - res.pos0 + 1, Len(sink))
                          = res.calls[1]
           /\ (pos = 0 /\ hist.fails = 0 /\ hist.skipped = 0)
                 => sink = hist.accepted

\* The sink failed in the destructor's write_all: the destructor completed
\* without a report and the buffered bytes did not all reach the sink.
C15_Witness ==
    /\ res.op = "drop"
    /\ life = "dropped"
    /\ res.pos0 = Capacity
    /\ res.calls = <<Buffer(Capacity, buf)>>
    /\ pos = res.pos0
    /\ hist.fails = 1
    /\ res.ok
    /\ Len(sink) < Len(hist.accepted)

(***************************************************************************)
(* Claims about the PollSet shared by threads (SpecConc).                  *)
(***************************************************************************)

\* C2 (as claimed): when a wake call returns, every register call that had
\* returned before the wake call began is covered: its waker has been
\* invoked, by this wake, by an eviction or by another wake, or is in the
\* batch another wake has detached, or was dropped for a will_wake-equivalent
\* waker that took its slot.  None is still waiting in the registry and none
\* was lost.
C2_NoLostWakeup ==
    last.op = "wake"
        => \A i \in last.pending :
              fate[i] \in {"woken", "detached", "evicted", "deduped"}

\* C19 (as claimed): no waker is invoked by a thread that holds the spin
\* lock: wake() invokes the detached wakers after it has released the lock,
\* and the critical section of register invokes none.
C19_NoWakeUnderLock == ~wokeLocked

(***************************************************************************)
(* Claims about the draining loops of Buf and BufMut (SpecPut).            *)
(***************************************************************************)

\* The bytes of the buffer b from its cursor on.
Rest(b) == SubSeq(b.data, b.pos + 1, Len(b.data))

\* C16: put(src), with A the bytes remaining in src and B the room remaining
\* in the destination, returns min(len(A), len(B)); both cursors have moved
\* by exactly that count; the destination holds the first that many bytes
\* of A, in order, where its cursor was, and is unchanged everywhere else;
\* the source's bytes are untouched.
C16_PutCopiesMin ==
    (drain.op = "put" /\ drain.pc = "done")
        => LET A == Rest(drain.src0)
               n == Min(Len(A), BufRemaining(drain.dst0))
               at == drain.dst0.pos
           IN  /\ drain.ok
               /\ drain.total = n
               /\ dst.pos = at + n
               /\ src.pos = drain.src0.pos + n
               /\ SubSeq(dst.data, at + 1, at + n) = SubSeq(A, 1, n)
               /\ \A i \in DOMAIN dst.data :
                     (i <= at \/ i > at + n) => dst.data[i] = drain.dst0.data[i]
               /\ Len(dst.data) = Len(drain.dst0.data)
               /\ src.data = drain.src0.data

\* As in test_put, a destination shorter than the source is filled with a
\* prefix of the source, of which bytes remain; here in more than one
\* iteration, the buffers being stored in pieces.
C16_Witness ==
    /\ drain.op = "put"
    /\ drain.pc = "done"
    /\ Len(drain.counts) >= 2
    /\ drain.dst0.pos = 0
    /\ drain.src0.pos = 0
    /\ Len(dst.data) = MaxBufLen - 1
    /\ Len(src.data) = MaxBufLen
    /\ drain.total = MaxBufLen - 1
    /\ dst.data = SubSeq(src.data, 1, MaxBufLen - 1)
    /\ BufRemaining(src) = 1
    /\ BufRemaining(dst) = 0

RECURSIVE Sum(_)
\* The sum of a sequence of counts.
Sum(cs) == IF cs = <<>> THEN 0 ELSE cs[1] + Sum(Tail(cs))

\* The buffer the loop of the call in progress ran on, as the call found it.
DrainSelf0 == IF drain.op = "read_with" THEN drain.src0 ELSE drain.dst0

\* C20: the loop of read_with, fill_with (and put, which is fill_with) goes
\* on while the chunk is non-empty and the transfer function reports a
\* positive count, and stops at the first empty chunk or the first count of
\* 0: every count before the last is positive, and a call that returned Ok
\* ended on an empty chunk or a count of 0.  The cursor has moved by exactly
\* the sum of the counts returned in Ok, also when the call returned Err;
\* Ok carries that sum.  The positive counts are bounded by the bytes the
\* buffer had, so the loop ends: a call in progress eventually returns.
C20_DrainingLoop ==
    /\ [](drain.op # "none"
            => /\ \A k \in 1 .. (Len(drain.counts) - 1) : drain.counts[k] > 0
               /\ drain.pc = "loop"
                     => \A k \in DOMAIN drain.counts : drain.counts[k] > 0
               /\ (drain.pc = "done" /\ drain.ok)
                     => \/ BufChunk(DrainSelf) = <<>>
                        \/ /\ drain.counts # <<>>
                           /\ drain.counts[Len(drain.counts)] = 0
               /\ DrainSelf.pos = DrainSelf0.pos + Sum(drain.counts)
               /\ drain.total = Sum(drain.counts)
               /\ Sum(drain.counts) <= BufRemaining(DrainSelf0)
               /\ Len(drain.counts) <= BufRemaining(DrainSelf0) + 1)
    /\ (drain.pc = "loop") ~> (drain.pc = "done")

\* A read_with on a buffer stored in pieces returned Ok after the transfer
\* function took every chunk whole: as many iterations as pieces, then the
\* empty chunk.
C20_Witness ==
    /\ drain.op = "read_with"
    /\ drain.pc = "done"
    /\ drain.ok
    /\ Len(drain.counts) > 1
    /\ \A k \in DOMAIN drain.counts : drain.counts[k] > 0
    /\ drain.total = MaxBufLen
    /\ src.pos = MaxBufLen
    /\ BufChunk(src) = <<>>

====
